---- MODULE Spec2Model ----
(***************************************************************************)
(* A model of two subsystems of tigate:                                    *)
(*   - the parallel dynamic stream (utils/dynstream), which hashes a path  *)
(*     to one of a fixed fleet of dynamic streams, and                     *)
(*   - the schema store (logservice/schemastore), which drains DDL events  *)
(*     and resolved timestamps and serves versioned table information to   *)
(*     registered dispatchers.                                             *)
(* The single dynamic stream, the versioned table info store and the       *)
(* persistent storage are not part of the sources at hand; they are        *)
(* modelled from the specification and marked as such in the model map.    *)
(***************************************************************************)
EXTENDS Integers, Sequences, FiniteSets, TLC

(***************************************************************************)
(* Bounds of the model.                                                    *)
(***************************************************************************)
\* streamCount handed to newParallelDynamicStream
StreamCount == 2
\* number of distinct paths
NumPaths == 2
\* events sent per path
MaxEvents == 2
\* events that may wait in one stream's input channel
MaxInFlight == 2
\* worker routines per dynamic stream
WorkersPerStream == 2
\* AddPath / RemovePath / Wake calls made in one run
MaxAdminOps == 3

\* tables, dispatchers and schemas known to the schema store
NumTables == 2
NumDispatchers == 2
NumSchemas == 2
\* the largest timestamp; InfTs stands for math.MaxUint64
MaxTs == 4
\* API calls (goroutines) made in one run
NumCalls == 3
\* DDL events and resolved timestamps the fetcher hands over in one run
MaxDDLEvents == 2
MaxAdvances == 2
\* items that may wait in eventCh
MaxQueued == 2
\* goroutines registering a dispatcher of the same table
NumRacers == 2
\* memory areas, the largest memory quota SetAreaSettings installs and the
\* size of an event, both in bytes
NumAreas == 2
MaxQuota == 2
EventSize == 2
\* goroutines calling addDDL, their calls and the calls of
\* getSortedDDLEventBeforeTS made in one run
NumAdders == 2
MaxAdds == 3
MaxFetches == 2

Paths == 1..NumPaths
Streams == 0..(StreamCount - 1)
\* what a faulty PathHasher can return besides a valid index
HashRange == (-1)..StreamCount
Areas == 1..NumAreas

VARIABLES
  \* ---- parallel dynamic stream ----
  pathHaser,     \* the PathHasher: path -> index
  dsIn,          \* per stream: its In() channel, a FIFO of events
  dsPaths,       \* per stream: the set of registered paths
  dsPending,     \* per stream, per path: the pending queue
  dsBusy,        \* per stream, per path: a worker is inside Handle
  dsAwait,       \* per stream, per path: Handle asked to wait for a Wake
  sent,          \* per path: number of events sent on In(path)
  handled,       \* per path: the events handed to Handle, in order
  active,        \* per path: Handle invocations in progress
  dropped,       \* per path: events given to OnDrop
  removedCnt,    \* per path: OnPathRemoved invocations
  routed,        \* per path: the streams its operations were forwarded to
  lastOp,        \* the last admin operation and its result
  adminOps,      \* admin operations made so far
  dsFatal,       \* the process panicked in hash()
  dsPanic,       \* the panic that ended the process: its message and the path
  enableMemoryControl, \* option.EnableMemoryControl
  feedbackChan,  \* the shared feedback channel: everything sent on it, in order
  pathArea,      \* per path: the area it is accounted to
  areaQuota,     \* per stream, per area: settings.memoryQuota
  areaBytes,     \* per stream, per area: currentBytes
  pausedPaths,   \* per stream, per area: the paths told to pause
  \* ---- schema store ----
  mu,                \* schemaStore.mu: Free, or who locked it last
  finishedDDLTS,     \* max finishedTS of all applied ddl events
  schemaVersion,     \* max schemaVersion of all applied ddl events
  databaseMap,       \* databaseID -> database info
  tableInfoStoreMap, \* tableID -> versioned store (NoStore: no entry)
  dispatchersMap,    \* dispatcherID -> tableID (NoTable: no entry)
  stores,            \* the versioned stores built so far, by the call that built them
  eventCh,           \* the input channel of the drain loop
  unsortedCache,     \* unresolved ddl events
  ddlLog,            \* persistent storage: the ddl events written
  meta,              \* persistent storage: the meta record
  gcTs,              \* persistent storage: the gc floor
  drainPc,           \* where batchCommitAndUpdateWatermark stands
  batch,             \* the resolved events the drain loop still has to apply
  calls,             \* the API calls: operation, arguments, position, result
  fetched,           \* numbers of ddl events and resolved timestamps handed over
  applied,           \* the jobs applied by the drain loop, in order
  storeFatal,        \* the process died: log.Fatal, log.Panic
  \* ---- the unsorted cache, call by call ----
  cacheMutex,        \* unSortedDDLCache.mutex: Free, or who holds it
  addCalls,          \* per goroutine: its addDDL call
  fetchCall,         \* the getSortedDDLEventBeforeTS call and its locals
  cacheHist          \* the events added and the events returned so far

memVars == <<enableMemoryControl, feedbackChan, pathArea, areaQuota, areaBytes,
             pausedPaths>>

routerVars == <<pathHaser, dsIn, dsPaths, dsPending, dsBusy, dsAwait, sent,
                handled, active, dropped, removedCnt, routed, lastOp,
                adminOps, dsFatal, dsPanic, memVars>>

cacheVars == <<cacheMutex, addCalls, fetchCall, cacheHist>>

storeVars == <<mu, finishedDDLTS, schemaVersion, databaseMap, tableInfoStoreMap,
               dispatchersMap, stores, eventCh, unsortedCache, ddlLog, meta, gcTs,
               drainPc, batch, calls, fetched, applied, storeFatal, cacheVars>>

vars == <<routerVars, storeVars>>

NoOp == [op |-> "none", path |-> 0, stream |-> -1, result |-> "none", known |-> FALSE]

NoPanic == [msg |-> "none", path |-> 0]

(***************************************************************************)
(* newParallelDynamicStream: streamCount independent dynamic streams, all  *)
(* with the same handler.                                                  *)
(***************************************************************************)
newParallelDynamicStream(hasher) ==
  /\ pathHaser = hasher
  /\ dsIn = [s \in Streams |-> <<>>]
  /\ dsPaths = [s \in Streams |-> {}]
  /\ dsPending = [s \in Streams |-> [p \in Paths |-> <<>>]]
  /\ dsBusy = [s \in Streams |-> [p \in Paths |-> FALSE]]
  /\ dsAwait = [s \in Streams |-> [p \in Paths |-> FALSE]]
  /\ sent = [p \in Paths |-> 0]
  /\ handled = [p \in Paths |-> <<>>]
  /\ active = [p \in Paths |-> 0]
  /\ dropped = [p \in Paths |-> {}]
  /\ removedCnt = [p \in Paths |-> 0]
  /\ routed = [p \in Paths |-> {}]
  /\ lastOp = NoOp
  /\ adminOps = 0
  /\ dsFatal = FALSE
  /\ dsPanic = NoPanic
  /\ feedbackChan = <<>>
  /\ areaQuota = [s \in Streams |-> [a \in Areas |-> 1]]
  /\ areaBytes = [s \in Streams |-> [a \in Areas |-> 0]]
  /\ pausedPaths = [s \in Streams |-> [a \in Areas |-> {}]]

\* a hasher that follows the number of events already sent on the path,
\* instead of the path alone
hashByEvent(p) == (pathHaser[p] + sent[p]) % StreamCount

\* parallelDynamicStream.hash: the index the hasher gives for the path
hash(p) == pathHaser[p]

\* a check of the index against both ends of dynamicStreams
hashOutside(p) == hash(p) >= StreamCount \/ hash(p) < 0

\* hash() panics with "invalid hash result"
hashInvalid(p) == hash(p) >= StreamCount

\* the index passes hash()'s check but is no index of dynamicStreams
indexOutOfRange(p) == hash(p) < 0

hashPanics(p) == hashInvalid(p) \/ indexOutOfRange(p)

\* the panic of hash(), or the one of the index expression of its caller
Panic(p) ==
  /\ dsFatal' = TRUE
  /\ dsPanic' = [msg |-> IF hashInvalid(p) THEN "invalid hash result"
                         ELSE "index out of range",
                 path |-> p]
  /\ UNCHANGED <<pathHaser, dsIn, dsPaths, dsPending, dsBusy, dsAwait, sent,
                 handled, active, dropped, removedCnt, routed, lastOp, adminOps>>

knownAnywhere(p) == \E s \in Streams : p \in dsPaths[s]

\* Feedback{area, path, pause} for every path of S, lowest path first
RECURSIVE feedbackFor(_, _, _)
feedbackFor(S, a, pause) ==
  IF S = {} THEN <<>>
  ELSE LET p == CHOOSE x \in S : \A y \in S : x <= y
       IN <<[area |-> a, path |-> p, pause |-> pause]>> \o feedbackFor(S \ {p}, a, pause)

(***************************************************************************)
(* Memory control of stream s for area a, once currentBytes became bytes   *)
(* and the stream knows the paths in known: over the quota, the paths of   *)
(* the area not yet paused are paused, with one Feedback{pause: true}      *)
(* each; back within the quota, every paused path gets one                 *)
(* Feedback{pause: false}.  Without option.EnableMemoryControl there is no *)
(* feedback channel and nothing is accounted.  The paused set is the one   *)
(* of the area registry: a path removed while paused stays in it until the *)
(* area is back within its quota.  Were the flag kept with the path's      *)
(* registry entry and dropped by RemovePath, a path added again would be   *)
(* paused a second time without a resume in between.                       *)
(***************************************************************************)
memoryControl(s, a, bytes, known) ==
  /\ IF enableMemoryControl
     THEN LET over == bytes > areaQuota[s][a]
              newlyCrossed == IF over
                              THEN {p \in known : pathArea[p] = a} \ pausedPaths[s][a]
                              ELSE {}
              resumed == IF over THEN {} ELSE pausedPaths[s][a]
          IN /\ areaBytes' = [areaBytes EXCEPT ![s][a] = bytes]
             /\ pausedPaths' = [pausedPaths EXCEPT ![s][a] = (@ \cup newlyCrossed) \ resumed]
             /\ feedbackChan' = feedbackChan \o feedbackFor(newlyCrossed, a, TRUE)
                                             \o feedbackFor(resumed, a, FALSE)
     ELSE UNCHANGED <<areaBytes, pausedPaths, feedbackChan>>
  /\ UNCHANGED <<enableMemoryControl, pathArea, areaQuota>>

(***************************************************************************)
(* In(path) <- event: the producer sends the next event of the path on the *)
(* channel In(path) returns.                                               *)
(***************************************************************************)
In(p) ==
  /\ ~dsFatal
  /\ sent[p] < MaxEvents
  /\ IF hashPanics(p) THEN Panic(p)
     ELSE /\ Len(dsIn[hash(p)]) < MaxInFlight
          /\ dsIn' = [dsIn EXCEPT ![hash(p)] = Append(@, [path |-> p, seq |-> sent[p] + 1])]
          /\ sent' = [sent EXCEPT ![p] = @ + 1]
          /\ routed' = [routed EXCEPT ![p] = @ \cup {hash(p)}]
          /\ UNCHANGED <<pathHaser, dsPaths, dsPending, dsBusy, dsAwait, handled,
                         active, dropped, removedCnt, lastOp, adminOps, dsFatal, dsPanic>>
  /\ UNCHANGED memVars

(***************************************************************************)
(* AddPath(path, dest): forwarded to dynamicStreams[hash(path)].           *)
(***************************************************************************)
AddPath(p) ==
  /\ ~dsFatal
  /\ adminOps < MaxAdminOps
  /\ IF hashPanics(p) THEN Panic(p)
     ELSE LET s == hash(p) IN
          /\ adminOps' = adminOps + 1
          /\ routed' = [routed EXCEPT ![p] = @ \cup {s}]
          /\ IF p \in dsPaths[s]
             THEN /\ lastOp' = [op |-> "AddPath", path |-> p, stream |-> s,
                                result |-> "PathExists", known |-> knownAnywhere(p)]
                  /\ UNCHANGED dsPaths
             ELSE /\ lastOp' = [op |-> "AddPath", path |-> p, stream |-> s,
                                result |-> "ok", known |-> knownAnywhere(p)]
                  /\ dsPaths' = [dsPaths EXCEPT ![s] = @ \cup {p}]
          /\ UNCHANGED <<pathHaser, dsIn, dsPending, dsBusy, dsAwait, sent, handled,
                         active, dropped, removedCnt, dsFatal, dsPanic>>
  /\ UNCHANGED memVars

(***************************************************************************)
(* RemovePath(path): forwarded to dynamicStreams[hash(path)], which drops  *)
(* the pending events of the path (OnDrop) and then calls OnPathRemoved.   *)
(* The dropped events no longer count for the area of the path.            *)
(***************************************************************************)
RemovePath(p) ==
  /\ ~dsFatal
  /\ adminOps < MaxAdminOps
  /\ IF hashPanics(p) THEN Panic(p)
     ELSE LET s == hash(p) IN
          /\ adminOps' = adminOps + 1
          /\ routed' = [routed EXCEPT ![p] = @ \cup {s}]
          /\ IF p \notin dsPaths[s]
             THEN /\ lastOp' = [op |-> "RemovePath", path |-> p, stream |-> s,
                                result |-> "PathMissing", known |-> knownAnywhere(p)]
                  /\ UNCHANGED <<dsPaths, dsPending, dsAwait, dropped, removedCnt>>
             ELSE /\ lastOp' = [op |-> "RemovePath", path |-> p, stream |-> s,
                                result |-> "ok", known |-> knownAnywhere(p)]
                  /\ dsPaths' = [dsPaths EXCEPT ![s] = @ \ {p}]
                  /\ dropped' = [dropped EXCEPT ![p] =
                                   @ \cup {dsPending[s][p][i].seq : i \in 1..Len(dsPending[s][p])}]
                  /\ dsPending' = [dsPending EXCEPT ![s][p] = <<>>]
                  /\ dsAwait' = [dsAwait EXCEPT ![s][p] = FALSE]
                  /\ removedCnt' = [removedCnt EXCEPT ![p] = @ + 1]
          /\ UNCHANGED <<pathHaser, dsIn, dsBusy, sent, handled, active, dsFatal, dsPanic>>
  /\ IF ~hashPanics(p) /\ p \in dsPaths[hash(p)]
     THEN memoryControl(hash(p), pathArea[p],
                        areaBytes[hash(p)][pathArea[p]] - EventSize * Len(dsPending[hash(p)][p]),
                        dsPaths[hash(p)] \ {p})
     ELSE UNCHANGED memVars

(***************************************************************************)
(* Wake(path) <- path: forwarded to dynamicStreams[hash(path)], which      *)
(* makes the path runnable again.                                          *)
(***************************************************************************)
Wake(p) ==
  /\ ~dsFatal
  /\ adminOps < MaxAdminOps
  /\ IF hashPanics(p) THEN Panic(p)
     ELSE LET s == hash(p) IN
          /\ adminOps' = adminOps + 1
          /\ routed' = [routed EXCEPT ![p] = @ \cup {s}]
          /\ lastOp' = [op |-> "Wake", path |-> p, stream |-> s,
                        result |-> IF p \in dsPaths[s] THEN "ok" ELSE "ignored",
                        known |-> knownAnywhere(p)]
          /\ dsAwait' = [dsAwait EXCEPT ![s][p] = FALSE]
          /\ UNCHANGED <<pathHaser, dsIn, dsPaths, dsPending, dsBusy, sent, handled,
                         active, dropped, removedCnt, dsFatal, dsPanic>>
  /\ UNCHANGED memVars

(***************************************************************************)
(* The scheduler of stream s reads one event from its In channel and puts  *)
(* it on the pending queue of its path, adding its size to the area of the *)
(* path; an event of a path the stream does not know is dropped.           *)
(***************************************************************************)
Schedule(s) ==
  /\ ~dsFatal
  /\ dsIn[s] # <<>>
  /\ LET e == Head(dsIn[s]) IN
     /\ dsIn' = [dsIn EXCEPT ![s] = Tail(@)]
     /\ IF e.path \in dsPaths[s]
        THEN /\ dsPending' = [dsPending EXCEPT ![s][e.path] = Append(@, e)]
             /\ memoryControl(s, pathArea[e.path], areaBytes[s][pathArea[e.path]] + EventSize,
                              dsPaths[s])
             /\ UNCHANGED dropped
        ELSE /\ dropped' = [dropped EXCEPT ![e.path] = @ \cup {e.seq}]
             /\ UNCHANGED <<dsPending, memVars>>
  /\ UNCHANGED <<pathHaser, dsPaths, dsBusy, dsAwait, sent, handled, active,
                 removedCnt, routed, lastOp, adminOps, dsFatal, dsPanic>>

busyWorkers(s) == Cardinality({p \in Paths : dsBusy[s][p]})

\* a path is runnable when it has pending events, is not waiting for a wake and
\* no worker holds its per-path mutex
runnable(s, p) ==
  /\ p \in dsPaths[s]
  /\ dsPending[s][p] # <<>>
  /\ ~dsAwait[s][p]
  /\ ~dsBusy[s][p]

(***************************************************************************)
(* A free worker of stream s takes the first pending event of a runnable   *)
(* path and enters Handle.                                                 *)
(***************************************************************************)
HandleBegin(s, p) ==
  /\ ~dsFatal
  /\ runnable(s, p)
  /\ busyWorkers(s) < WorkersPerStream
  /\ dsBusy' = [dsBusy EXCEPT ![s][p] = TRUE]
  /\ handled' = [handled EXCEPT ![p] = Append(@, Head(dsPending[s][p]).seq)]
  /\ dsPending' = [dsPending EXCEPT ![s][p] = Tail(@)]
  /\ active' = [active EXCEPT ![p] = @ + 1]
  /\ UNCHANGED <<pathHaser, dsIn, dsPaths, dsAwait, sent, dropped, removedCnt,
                 routed, lastOp, adminOps, dsFatal, dsPanic, memVars>>

(***************************************************************************)
(* Handle returns; with await it parks the path until a Wake.  The worker  *)
(* then takes the size of the event off the area's currentBytes.           *)
(***************************************************************************)
HandleEnd(s, p, await) ==
  /\ ~dsFatal
  /\ dsBusy[s][p]
  /\ dsBusy' = [dsBusy EXCEPT ![s][p] = FALSE]
  /\ active' = [active EXCEPT ![p] = @ - 1]
  /\ dsAwait' = [dsAwait EXCEPT ![s][p] = await /\ p \in dsPaths[s]]
  /\ memoryControl(s, pathArea[p], areaBytes[s][pathArea[p]] - EventSize, dsPaths[s])
  /\ UNCHANGED <<pathHaser, dsIn, dsPaths, dsPending, sent, handled, dropped,
                 removedCnt, routed, lastOp, adminOps, dsFatal, dsPanic>>

RouterNext ==
  \/ \E p \in Paths : In(p) /\ UNCHANGED storeVars
  \/ \E p \in Paths : AddPath(p) /\ UNCHANGED storeVars
  \/ \E p \in Paths : RemovePath(p) /\ UNCHANGED storeVars
  \/ \E p \in Paths : Wake(p) /\ UNCHANGED storeVars
  \/ \E s \in Streams : Schedule(s) /\ UNCHANGED storeVars
  \/ \E s \in Streams, p \in Paths : HandleBegin(s, p) /\ UNCHANGED storeVars
  \/ \E s \in Streams, p \in Paths, await \in BOOLEAN : HandleEnd(s, p, await) /\ UNCHANGED storeVars

(***************************************************************************)
(* SetAreaSettings(area, settings): handed to every stream; each replaces  *)
(* its settings of the area and recomputes the paused paths on its next    *)
(* cycle.                                                                  *)
(***************************************************************************)
SetAreaSettings(a, quota) ==
  /\ ~dsFatal
  /\ adminOps < MaxAdminOps
  /\ adminOps' = adminOps + 1
  /\ areaQuota' = [s \in Streams |-> [areaQuota[s] EXCEPT ![a] = quota]]
  /\ UNCHANGED <<pathHaser, dsIn, dsPaths, dsPending, dsBusy, dsAwait, sent, handled,
                 active, dropped, removedCnt, routed, lastOp, dsFatal, dsPanic,
                 enableMemoryControl, feedbackChan, pathArea, areaBytes, pausedPaths>>

\* the parallel dynamic stream with its memory control in use
FeedbackNext ==
  \/ RouterNext
  \/ \E a \in Areas, quota \in 1..MaxQuota : SetAreaSettings(a, quota) /\ UNCHANGED storeVars

(***************************************************************************)
(* The schema store.                                                       *)
(***************************************************************************)
Tables == 1..NumTables
Dispatchers == 1..NumDispatchers
Schemas == 1..NumSchemas
Calls == 1..NumCalls
Ts == 0..MaxTs
\* math.MaxUint64
InfTs == MaxTs + 1

\* holders of schemaStore.mu
Free == 0
Drain == -1

NoStore == 0
NoTable == 0
NoTs == -1

\* job types, by the arm of handleResolvedDDLJob that takes them
SchemaJobs == {"CreateSchema", "DropSchema"}
TableJobs == {"CreateTable", "AlterTable"}

\* the schema a table lives in
SchemaOf(t) == ((t - 1) % NumSchemas) + 1

\* DDLEvent{Job, CommitTS}; the job's FinishedTS and Version are those of the
\* transaction that committed it
DDLEvent(ts, ty, t, sc) ==
  [commitTs |-> ts, finishedTs |-> ts, version |-> ts, type |-> ty,
   tableID |-> t, schemaID |-> sc]

DDLEventSet ==
  {DDLEvent(ts, ty, NoTable, sc) : ts \in 1..MaxTs, ty \in SchemaJobs, sc \in Schemas}
    \cup {DDLEvent(ts, ty, t, SchemaOf(t)) : ts \in 1..MaxTs, ty \in TableJobs, t \in Tables}

\* DatabaseInfo; absent: no entry in databaseMap
NoDatabase == [present |-> FALSE, CreateVersion |-> 0, DeleteVersion |-> 0]
LiveDatabase(v) == [present |-> TRUE, CreateVersion |-> v, DeleteVersion |-> InfTs]

\* newEmptyVersionedTableInfoStore
EmptyStore(t) ==
  [tableID |-> t, infos |-> <<>>, dispatchers |-> [d \in Dispatchers |-> NoTs],
   initialized |-> FALSE]

\* an API call: its operation and arguments, where it stands, the locals of
\* RegisterDispatcher (store, endTS) and what it returned
NoCall ==
  [op |-> "none", pc |-> "idle", d |-> 0, t |-> 0, ts |-> 0, store |-> NoStore,
   path |-> "none", endTS |-> 0, result |-> "none", value |-> 0]

\* what newPersistentStorage finds on disk: nothing, or what a former run left
\* behind: a gc floor, a ddl job of table 1 that was resolved and applied, and
\* one that was written to the log but not resolved before the run ended
StorageImages ==
  { [log |-> {}, resolvedTS |-> 0, finishedDDLTS |-> 0, schemaVersion |-> 0, gcTs |-> 0],
    [log |-> {DDLEvent(MaxTs - 2, "AlterTable", 1, SchemaOf(1)),
              DDLEvent(MaxTs, "AlterTable", 1, SchemaOf(1))},
     resolvedTS |-> MaxTs - 1, finishedDDLTS |-> MaxTs - 2, schemaVersion |-> MaxTs - 2,
     gcTs |-> 1] }

(***************************************************************************)
(* NewSchemaStore: the watermarks come from the meta record, the maps of   *)
(* stores and dispatchers are empty.                                       *)
(***************************************************************************)
NewSchemaStore(img) ==
  /\ mu = Free
  /\ finishedDDLTS = img.finishedDDLTS
  /\ schemaVersion = img.schemaVersion
  /\ databaseMap = [sc \in Schemas |-> IF sc = 1 THEN LiveDatabase(0) ELSE NoDatabase]
  /\ tableInfoStoreMap = [t \in Tables |-> NoStore]
  /\ dispatchersMap = [d \in Dispatchers |-> NoTable]
  /\ stores = [c \in Calls |-> EmptyStore(NoTable)]
  /\ eventCh = <<>>
  /\ unsortedCache = {}
  /\ ddlLog = img.log
  /\ meta = [resolvedTS |-> img.resolvedTS, finishedDDLTS |-> img.finishedDDLTS,
             schemaVersion |-> img.schemaVersion]
  /\ gcTs = img.gcTs
  /\ drainPc = "idle"
  /\ batch = <<>>
  /\ calls = [c \in Calls |-> NoCall]
  /\ fetched = [ddl |-> 0, ts |-> 0]
  /\ applied = <<>>
  /\ storeFatal = "no"
  /\ cacheMutex = Free
  /\ addCalls = [g \in 1..NumAdders |-> [pc |-> "idle", ev |-> 0]]
  /\ fetchCall = [pc |-> "idle", ts |-> 0, before |-> {}, events |-> <<>>,
                  todo |-> <<>>, after |-> {}]
  /\ cacheHist = [added |-> {}, returned |-> <<>>, adds |-> 0, fetches |-> 0]

(***************************************************************************)
(* The versioned table info store.                                         *)
(***************************************************************************)
\* getFirstVersion: the version of the first item, math.MaxUint64 when empty
getFirstVersion(st) == IF st.infos = <<>> THEN InfTs ELSE st.infos[1]

\* applyDDL: appends the version job.BinlogInfo.FinishedTS
applyDDL(st, job) == [st EXCEPT !.infos = Append(@, job.finishedTs)]

registerDispatcher(st, d, ts) == [st EXCEPT !.dispatchers[d] = ts]

unregisterDispatcher(st, d) == [st EXCEPT !.dispatchers[d] = NoTs]

\* what unregisterDispatcher returns: the last dispatcher was removed
noDispatchers(st) == \A d \in Dispatchers : st.dispatchers[d] = NoTs

setTableInfoInitialized(st) == [st EXCEPT !.initialized = TRUE]

versionsOf(st) == {st.infos[i] : i \in 1..Len(st.infos)}

Max(S) == CHOOSE x \in S : \A y \in S : y <= x

Min(S) == CHOOSE x \in S : \A y \in S : x <= y

RECURSIVE ascending(_)
ascending(S) == IF S = {} THEN <<>> ELSE <<Min(S)>> \o ascending(S \ {Min(S)})

\* getTableInfo: the result and, when it is "ok", the version found
getTableInfo(st, ts) ==
  IF st.infos = <<>> THEN [result |-> "NotFound", value |-> 0]
  ELSE IF ts < getFirstVersion(st) THEN [result |-> "TooOld", value |-> 0]
  ELSE [result |-> "ok", value |-> Max({v \in versionsOf(st) : v <= ts})]

\* checkAndCopyTailFrom: the store takes over what had been applied to src, so
\* that no version of src is lost; the list stays ordered
checkAndCopyTailFrom(st, src) ==
  [st EXCEPT !.infos = ascending(versionsOf(st) \cup versionsOf(src))]

copyRegisteredDispatchers(st, src) ==
  [st EXCEPT !.dispatchers =
     [d \in Dispatchers |-> IF src.dispatchers[d] # NoTs THEN src.dispatchers[d] ELSE @[d]]]

(***************************************************************************)
(* The persistent storage.                                                 *)
(***************************************************************************)
\* buildVersionedTableInfoStore: the finishedTs of the logged ddl jobs of the
\* table still to replay, those with startTS < finishedTs <= endTS
toReplay(t, startTS, endTS) ==
  {e.finishedTs : e \in {x \in ddlLog : /\ x.tableID = t
                                        /\ x.type \in TableJobs
                                        /\ startTS < x.finishedTs
                                        /\ x.finishedTs <= endTS}}

\* buildVersionedTableInfoStore: the jobs of (startTS, endTS], oldest first
buildVersionedTableInfoStore(st, startTS, endTS) ==
  [st EXCEPT !.infos = @ \o ascending(toReplay(st.tableID, startTS, endTS))]

(***************************************************************************)
(* The unsorted ddl cache.                                                 *)
(***************************************************************************)
ddlEventLess(a, b) == a.commitTs < b.commitTs

RECURSIVE sorted(_)
sorted(S) ==
  IF S = {} THEN <<>>
  ELSE LET m == CHOOSE e \in S : \A f \in S : ~ddlEventLess(f, e)
       IN <<m>> \o sorted(S \ {m})

\* addDDL finds an event of the same commitTS: log.Fatal
commitTSConflict(cache, e) == \E f \in cache : ~ddlEventLess(e, f) /\ ~ddlEventLess(f, e)

\* getSortedDDLEventBeforeTS: the events with CommitTS <= ts, ascending
getSortedDDLEventBeforeTS(cache, ts) == sorted({e \in cache : e.commitTs <= ts})

(***************************************************************************)
(* handleResolvedDDLJob and its helpers.                                   *)
(***************************************************************************)
CreateTableJobs == {"CreateTables", "CreateTable", "CreateView", "RecoverTable"}

\* the job types whose arm does not touch a versioned store
StoreLessJobs ==
  {"CreateSchema", "ModifySchemaCharsetAndCollate", "DropSchema", "RenameTables"}
    \cup CreateTableJobs

fillSchemaNameFails(job, dbm) ==
  \/ ~dbm[job.schemaID].present
  \/ dbm[job.schemaID].CreateVersion > job.finishedTs
  \/ dbm[job.schemaID].DeleteVersion < job.finishedTs

createSchemaFails(job, dbm) == dbm[job.schemaID].present

isDeleted(info) == info.DeleteVersion # InfTs

dropSchemaFails(job, dbm) ==
  \/ ~dbm[job.schemaID].present
  \/ isDeleted(dbm[job.schemaID])

\* handleResolvedDDLJob returns an error
handleFails(job, dbm, tsm) ==
  \/ fillSchemaNameFails(job, dbm)
  \/ CASE job.type = "CreateSchema" -> createSchemaFails(job, dbm)
       [] job.type = "ModifySchemaCharsetAndCollate" -> FALSE
       [] job.type = "DropSchema" -> dropSchemaFails(job, dbm)
       [] job.type = "RenameTables" -> FALSE
       [] job.type \in CreateTableJobs -> FALSE
       [] OTHER -> tsm[job.tableID] = NoStore

\* handleResolvedDDLJob panics: a store exists for a table that is being created
handlePanics(job, dbm, tsm) ==
  /\ ~fillSchemaNameFails(job, dbm)
  /\ job.type \in CreateTableJobs
  /\ tsm[job.tableID] # NoStore

\* the databaseMap after a job that succeeded
handledDatabaseMap(job, dbm) ==
  CASE job.type = "CreateSchema" ->
         [dbm EXCEPT ![job.schemaID] = LiveDatabase(job.finishedTs)]
    [] job.type = "DropSchema" ->
         [dbm EXCEPT ![job.schemaID].DeleteVersion = job.finishedTs]
    [] OTHER -> dbm

\* the stores after a job that succeeded
handledStores(job, tsm, sts) ==
  IF job.type \in StoreLessJobs THEN sts
  ELSE [sts EXCEPT ![tsm[job.tableID]] = applyDDL(@, job)]

\* the drain loop skips a job as already applied
alreadyApplied(job) == job.version <= schemaVersion \/ job.finishedTs <= finishedDDLTS

(***************************************************************************)
(* The API calls. A call that finds the mutex free enters its first        *)
(* critical section at once; otherwise it waits in Lock ("lock").          *)
(***************************************************************************)
Returned(rec, res, val) == [rec EXCEPT !.pc = "done", !.result = res, !.value = val]

\* RegisterDispatcher, from the first Lock to the first Unlock (or to the
\* return that leaves the mutex locked)
RegisterEnter(c, rec) ==
  IF rec.ts < gcTs
  THEN /\ mu' = c
       /\ calls' = [calls EXCEPT ![c] = Returned(rec, "TooOld", 0)]
       /\ UNCHANGED <<dispatchersMap, tableInfoStoreMap, stores, storeFatal>>
  ELSE /\ mu' = Free
       /\ UNCHANGED storeFatal
       /\ dispatchersMap' = [dispatchersMap EXCEPT ![rec.d] = rec.t]
       /\ IF tableInfoStoreMap[rec.t] = NoStore
          THEN /\ stores' = [stores EXCEPT ![c] =
                                registerDispatcher(EmptyStore(rec.t), rec.d, rec.ts)]
               /\ tableInfoStoreMap' = [tableInfoStoreMap EXCEPT ![rec.t] = c]
               /\ calls' = [calls EXCEPT ![c] =
                              [rec EXCEPT !.pc = "build", !.path = "new", !.store = c,
                                          !.endTS = finishedDDLTS]]
          ELSE /\ stores' = [stores EXCEPT ![tableInfoStoreMap[rec.t]] =
                                registerDispatcher(@, rec.d, rec.ts)]
               /\ calls' = [calls EXCEPT ![c] =
                              [rec EXCEPT !.pc = "waitInit", !.path = "existing",
                                          !.store = tableInfoStoreMap[rec.t]]]
               /\ UNCHANGED tableInfoStoreMap

\* UnregisterDispatcher, under the mutex; the store of a table without entry is
\* nil and the call on it panics
UnregisterBody(c, rec) ==
  IF dispatchersMap[rec.d] = NoTable
  THEN /\ mu' = Free
       /\ calls' = [calls EXCEPT ![c] = Returned(rec, "NotFound", 0)]
       /\ UNCHANGED <<dispatchersMap, tableInfoStoreMap, stores, storeFatal>>
  ELSE LET t == dispatchersMap[rec.d]
           sid == tableInfoStoreMap[t]
       IN IF sid = NoStore
          THEN /\ storeFatal' = "nil pointer dereference"
               /\ mu' = c
               /\ dispatchersMap' = [dispatchersMap EXCEPT ![rec.d] = NoTable]
               /\ calls' = [calls EXCEPT ![c] = [rec EXCEPT !.pc = "panic"]]
               /\ UNCHANGED <<tableInfoStoreMap, stores>>
          ELSE /\ mu' = Free
               /\ dispatchersMap' = [dispatchersMap EXCEPT ![rec.d] = NoTable]
               /\ stores' = [stores EXCEPT ![sid] = unregisterDispatcher(@, rec.d)]
               /\ tableInfoStoreMap' =
                    IF noDispatchers(unregisterDispatcher(stores[sid], rec.d))
                    THEN [tableInfoStoreMap EXCEPT ![t] = NoStore]
                    ELSE tableInfoStoreMap
               /\ calls' = [calls EXCEPT ![c] = Returned(rec, "ok", 0)]
               /\ UNCHANGED storeFatal

\* GetMaxFinishedDDLTS: Lock, read, and the deferred Lock of the mutex the call
\* holds itself, which is never granted
GetMaxFinishedDDLTSBody(c, rec) ==
  /\ mu' = c
  /\ calls' = [calls EXCEPT ![c] = [rec EXCEPT !.pc = "deferredLock", !.value = finishedDDLTS]]
  /\ UNCHANGED <<dispatchersMap, tableInfoStoreMap, stores, storeFatal>>

\* GetTableInfo, under the mutex, up to waitTableInfoInitialized
GetTableInfoEnter(c, rec) ==
  LET sid == tableInfoStoreMap[rec.t] IN
  /\ IF sid = NoStore
     THEN /\ mu' = Free
          /\ calls' = [calls EXCEPT ![c] = Returned(rec, "NotFound", 0)]
     ELSE IF stores[sid].initialized
     THEN /\ mu' = Free
          /\ calls' = [calls EXCEPT ![c] =
                         Returned([rec EXCEPT !.store = sid],
                                  getTableInfo(stores[sid], rec.ts).result,
                                  getTableInfo(stores[sid], rec.ts).value)]
     ELSE /\ mu' = c
          /\ calls' = [calls EXCEPT ![c] = [rec EXCEPT !.pc = "waitInitLocked", !.store = sid]]
  /\ UNCHANGED <<dispatchersMap, tableInfoStoreMap, stores, storeFatal>>

Enter(c, rec) ==
  /\ CASE rec.op = "RegisterDispatcher" -> RegisterEnter(c, rec)
       [] rec.op = "UnregisterDispatcher" -> UnregisterBody(c, rec)
       [] rec.op = "GetMaxFinishedDDLTS" -> GetMaxFinishedDDLTSBody(c, rec)
       [] rec.op = "GetTableInfo" -> GetTableInfoEnter(c, rec)
  /\ UNCHANGED <<finishedDDLTS, schemaVersion, databaseMap, eventCh, unsortedCache,
                 ddlLog, meta, gcTs, drainPc, batch, fetched, applied>>

\* a goroutine calls op(d, t, ts)
Call(c, op, d, t, ts) ==
  /\ storeFatal = "no"
  /\ calls[c].pc = "idle"
  /\ \A b \in Calls : b < c => calls[b].pc # "idle"
  /\ LET rec == [NoCall EXCEPT !.op = op, !.d = d, !.t = t, !.ts = ts] IN
     IF mu = Free
     THEN Enter(c, rec)
     ELSE /\ calls' = [calls EXCEPT ![c] = [rec EXCEPT !.pc = "lock"]]
          /\ UNCHANGED <<mu, finishedDDLTS, schemaVersion, databaseMap, tableInfoStoreMap,
                         dispatchersMap, stores, eventCh, unsortedCache, ddlLog, meta,
                         gcTs, drainPc, batch, fetched, applied, storeFatal>>

\* a call waiting in its first Lock gets the mutex
Acquire(c) ==
  /\ storeFatal = "no"
  /\ calls[c].pc = "lock"
  /\ mu = Free
  /\ Enter(c, calls[c])

\* RegisterDispatcher line 263-267: the store is initialized; it is enough
\* when its first version is not after startTS
WaitInitialized(c) ==
  /\ storeFatal = "no"
  /\ calls[c].pc = "waitInit"
  /\ stores[calls[c].store].initialized
  /\ calls' = [calls EXCEPT ![c] =
                 IF getFirstVersion(stores[calls[c].store]) <= calls[c].ts
                 THEN Returned(@, "ok", 0)
                 ELSE [@ EXCEPT !.pc = "newStore"]]
  /\ UNCHANGED <<mu, finishedDDLTS, schemaVersion, databaseMap, tableInfoStoreMap,
                 dispatchersMap, stores, eventCh, unsortedCache, ddlLog, meta, gcTs,
                 drainPc, batch, fetched, applied, storeFatal>>

\* RegisterDispatcher line 268-271: endTS and the new, empty store
NewStore(c) ==
  /\ storeFatal = "no"
  /\ calls[c].pc = "newStore"
  /\ calls' = [calls EXCEPT ![c] =
                 [@ EXCEPT !.pc = "build", !.path = "rebuild",
                           !.endTS = getFirstVersion(stores[calls[c].store])]]
  /\ stores' = [stores EXCEPT ![c] = EmptyStore(calls[c].t)]
  /\ UNCHANGED <<mu, finishedDDLTS, schemaVersion, databaseMap, tableInfoStoreMap,
                 dispatchersMap, eventCh, unsortedCache, ddlLog, meta, gcTs,
                 drainPc, batch, fetched, applied, storeFatal>>

\* buildVersionedTableInfoStore, one read of the log: getSchemaName takes the
\* mutex for every job replayed and fails for an unknown database; then
\* setTableInfoInitialized. The call that made the first store of the table
\* returns, the other one goes on to the final Lock
Build(c) ==
  /\ storeFatal = "no"
  /\ calls[c].pc = "build"
  /\ LET rec == calls[c]
         jobs == toReplay(rec.t, rec.ts, rec.endTS)
     IN /\ jobs # {} => mu = Free
        /\ IF jobs # {} /\ ~databaseMap[SchemaOf(rec.t)].present
           THEN /\ calls' = [calls EXCEPT ![c] = Returned(rec, "BuildErr", 0)]
                /\ UNCHANGED stores
           ELSE /\ stores' = [stores EXCEPT ![c] =
                                setTableInfoInitialized(
                                  buildVersionedTableInfoStore(@, rec.ts, rec.endTS))]
                /\ calls' = [calls EXCEPT ![c] =
                               IF rec.path = "new" THEN Returned(rec, "ok", 0)
                               ELSE [rec EXCEPT !.pc = "relock"]]
  /\ UNCHANGED <<mu, finishedDDLTS, schemaVersion, databaseMap, tableInfoStoreMap,
                 dispatchersMap, eventCh, unsortedCache, ddlLog, meta, gcTs,
                 drainPc, batch, fetched, applied, storeFatal>>

keepNewerStore(old, new) == getFirstVersion(old) >= getFirstVersion(new)

\* keep the store with smaller version
keepOldStore(old, new) == getFirstVersion(old) <= getFirstVersion(new)

\* RegisterDispatcher line 278-300: under the mutex again, keep the store with
\* the smaller first version
Relock(c) ==
  /\ storeFatal = "no"
  /\ calls[c].pc = "relock"
  /\ mu = Free
  /\ LET rec == calls[c]
         old == tableInfoStoreMap[rec.t]
     IN IF rec.ts < gcTs
        THEN /\ calls' = [calls EXCEPT ![c] = Returned(rec, "TooOld", 0)]
             /\ UNCHANGED <<tableInfoStoreMap, stores, storeFatal>>
        ELSE IF old = NoStore
        THEN /\ storeFatal' = "should not happened"
             /\ UNCHANGED <<tableInfoStoreMap, stores, calls>>
        ELSE IF keepOldStore(stores[old], stores[c])
        THEN /\ calls' = [calls EXCEPT ![c] = Returned(rec, "ok", 0)]
             /\ UNCHANGED <<tableInfoStoreMap, stores, storeFatal>>
        ELSE /\ stores' = [stores EXCEPT ![c] =
                             copyRegisteredDispatchers(
                               checkAndCopyTailFrom(@, stores[old]), stores[old])]
             /\ tableInfoStoreMap' = [tableInfoStoreMap EXCEPT ![rec.t] = c]
             /\ calls' = [calls EXCEPT ![c] = Returned(rec, "ok", 0)]
             /\ UNCHANGED storeFatal
  /\ UNCHANGED <<mu, finishedDDLTS, schemaVersion, databaseMap, dispatchersMap,
                 eventCh, unsortedCache, ddlLog, meta, gcTs, drainPc, batch,
                 fetched, applied>>

\* GetTableInfo line 345-346: the latch is set while the call holds the mutex
GetTableInfoInitialized(c) ==
  /\ storeFatal = "no"
  /\ calls[c].pc = "waitInitLocked"
  /\ stores[calls[c].store].initialized
  /\ mu' = Free
  /\ calls' = [calls EXCEPT ![c] =
                 Returned(@, getTableInfo(stores[calls[c].store], calls[c].ts).result,
                          getTableInfo(stores[calls[c].store], calls[c].ts).value)]
  /\ UNCHANGED <<finishedDDLTS, schemaVersion, databaseMap, tableInfoStoreMap,
                 dispatchersMap, stores, eventCh, unsortedCache, ddlLog, meta, gcTs,
                 drainPc, batch, fetched, applied, storeFatal>>

(***************************************************************************)
(* The ddl job fetcher hands over events and resolved timestamps.          *)
(***************************************************************************)
writeDDLEvent(e) ==
  /\ storeFatal = "no"
  /\ drainPc # "exited"
  /\ fetched.ddl < MaxDDLEvents
  /\ Len(eventCh) < MaxQueued
  /\ eventCh' = Append(eventCh, [kind |-> "ddl", ev |-> e, ts |-> 0])
  /\ fetched' = [fetched EXCEPT !.ddl = @ + 1]
  /\ UNCHANGED <<mu, finishedDDLTS, schemaVersion, databaseMap, tableInfoStoreMap,
                 dispatchersMap, stores, unsortedCache, ddlLog, meta, gcTs, drainPc,
                 batch, calls, applied, storeFatal>>

NoEvent == DDLEvent(0, "none", NoTable, 0)

advanceResolvedTs(ts) ==
  /\ storeFatal = "no"
  /\ drainPc # "exited"
  /\ fetched.ts < MaxAdvances
  /\ Len(eventCh) < MaxQueued
  /\ eventCh' = Append(eventCh, [kind |-> "ts", ev |-> NoEvent, ts |-> ts])
  /\ fetched' = [fetched EXCEPT !.ts = @ + 1]
  /\ UNCHANGED <<mu, finishedDDLTS, schemaVersion, databaseMap, tableInfoStoreMap,
                 dispatchersMap, stores, unsortedCache, ddlLog, meta, gcTs, drainPc,
                 batch, calls, applied, storeFatal>>

(***************************************************************************)
(* The unsorted cache call by call: addDDL and getSortedDDLEventBeforeTS   *)
(* each lock the mutex of the cache, work on the btree and unlock on       *)
(* return (defer).                                                         *)
(***************************************************************************)
Adders == 1..NumAdders

\* the events handed to addDDL: two per commitTS
CacheEvents == {DDLEvent(ts, ty, 1, SchemaOf(1)) : ts \in 1..MaxTs, ty \in TableJobs}

\* frame of the steps of the cache
cacheFrame ==
  UNCHANGED <<routerVars, mu, finishedDDLTS, schemaVersion, databaseMap,
              tableInfoStoreMap, dispatchersMap, stores, eventCh, ddlLog, meta, gcTs,
              drainPc, batch, calls, fetched, applied>>

\* a cache without its mutex
lockNothing == TRUE

\* c.mutex.Lock() returns only when no one holds the mutex
mutexLock == cacheMutex = Free

\* btree Delete(event): removes the item of the event's key
btreeDelete(cache, e) == {f \in cache : ddlEventLess(f, e) \/ ddlEventLess(e, f)}

\* addDDL, up to the lock
addDDLLock(g, e) ==
  /\ storeFatal = "no"
  /\ addCalls[g].pc = "idle"
  /\ cacheHist.adds < MaxAdds
  /\ e \notin cacheHist.added
  /\ \A h \in Adders : addCalls[h].pc = "locked" => addCalls[h].ev # e
  /\ mutexLock
  /\ cacheMutex' = g
  /\ addCalls' = [addCalls EXCEPT ![g] = [pc |-> "locked", ev |-> e]]
  /\ cacheHist' = [cacheHist EXCEPT !.adds = @ + 1]
  /\ UNCHANGED <<unsortedCache, fetchCall, storeFatal>>
  /\ cacheFrame

\* addDDL: ReplaceOrInsert, log.Fatal on a duplicate, deferred Unlock
addDDLInsert(g) ==
  /\ storeFatal = "no"
  /\ addCalls[g].pc = "locked"
  /\ LET e == addCalls[g].ev IN
     IF commitTSConflict(unsortedCache, e)
     THEN /\ unsortedCache' = btreeDelete(unsortedCache, e) \cup {e}
          /\ storeFatal' = "commitTS conflict"
          /\ UNCHANGED <<cacheMutex, addCalls, cacheHist>>
     ELSE /\ unsortedCache' = unsortedCache \cup {e}
          /\ cacheHist' = [cacheHist EXCEPT !.added = @ \cup {e}]
          /\ cacheMutex' = Free
          /\ addCalls' = [addCalls EXCEPT ![g] = [pc |-> "idle", ev |-> 0]]
          /\ UNCHANGED storeFatal
  /\ UNCHANGED fetchCall
  /\ cacheFrame

\* getSortedDDLEventBeforeTS(ts), up to the lock
fetchLock(ts) ==
  /\ storeFatal = "no"
  /\ fetchCall.pc \in {"idle", "done"}
  /\ cacheHist.fetches < MaxFetches
  /\ mutexLock
  /\ cacheMutex' = Drain
  /\ fetchCall' = [pc |-> "ascend", ts |-> ts, before |-> unsortedCache,
                   events |-> <<>>, todo |-> <<>>, after |-> {}]
  /\ cacheHist' = [cacheHist EXCEPT !.fetches = @ + 1]
  /\ UNCHANGED <<unsortedCache, addCalls, storeFatal>>
  /\ cacheFrame

\* Ascend: collect the events up to ts
fetchAscend ==
  /\ storeFatal = "no"
  /\ fetchCall.pc = "ascend"
  /\ LET events == getSortedDDLEventBeforeTS(unsortedCache, fetchCall.ts) IN
     fetchCall' = [fetchCall EXCEPT !.events = events, !.todo = events,
                                    !.pc = IF events = <<>> THEN "return" ELSE "delete"]
  /\ UNCHANGED <<unsortedCache, cacheMutex, addCalls, cacheHist, storeFatal>>
  /\ cacheFrame

\* one turn of the loop that deletes the collected events
fetchDelete ==
  /\ storeFatal = "no"
  /\ fetchCall.pc = "delete"
  /\ unsortedCache' = btreeDelete(unsortedCache, Head(fetchCall.todo))
  /\ fetchCall' = [fetchCall EXCEPT !.todo = Tail(@),
                                    !.pc = IF Len(fetchCall.todo) = 1 THEN "return"
                                           ELSE "delete"]
  /\ UNCHANGED <<cacheMutex, addCalls, cacheHist, storeFatal>>
  /\ cacheFrame

\* return events, with the deferred Unlock
fetchReturn ==
  /\ storeFatal = "no"
  /\ fetchCall.pc = "return"
  /\ cacheMutex' = Free
  /\ fetchCall' = [fetchCall EXCEPT !.pc = "done", !.after = unsortedCache]
  /\ cacheHist' = [cacheHist EXCEPT !.returned = @ \o fetchCall.events]
  /\ UNCHANGED <<unsortedCache, addCalls, storeFatal>>
  /\ cacheFrame

\* goroutines adding events against one that fetches
CacheNext ==
  \/ \E g \in Adders, e \in CacheEvents : addDDLLock(g, e)
  \/ \E g \in Adders : addDDLInsert(g)
  \/ \E ts \in 1..MaxTs : fetchLock(ts)
  \/ fetchAscend
  \/ fetchDelete
  \/ fetchReturn

(***************************************************************************)
(* batchCommitAndUpdateWatermark, the drain loop.                          *)
(***************************************************************************)
\* updateStoreMeta(v, finishedTS and version of the last resolved event)
updateStoreMeta(v, events) ==
  [resolvedTS |-> v, finishedDDLTS |-> events[Len(events)].finishedTs,
   schemaVersion |-> events[Len(events)].version]

\* case DDLEvent: into the cache and the persistent log
DrainDDLEvent ==
  /\ storeFatal = "no"
  /\ drainPc = "idle"
  /\ eventCh # <<>>
  /\ Head(eventCh).kind = "ddl"
  /\ eventCh' = Tail(eventCh)
  /\ LET e == Head(eventCh).ev IN
     IF commitTSConflict(unsortedCache, e)
     THEN /\ storeFatal' = "commitTS conflict"
          /\ UNCHANGED <<unsortedCache, ddlLog>>
     ELSE /\ unsortedCache' = unsortedCache \cup {e}
          /\ ddlLog' = ddlLog \cup {e}
          /\ UNCHANGED storeFatal
  /\ UNCHANGED <<mu, finishedDDLTS, schemaVersion, databaseMap, tableInfoStoreMap,
                 dispatchersMap, stores, meta, gcTs, drainPc, batch, calls, fetched,
                 applied>>

\* case common.Ts: fetch the resolved events; with none, continue; otherwise
\* update the meta record and go for the mutex
DrainResolvedTs ==
  /\ storeFatal = "no"
  /\ drainPc = "idle"
  /\ eventCh # <<>>
  /\ Head(eventCh).kind = "ts"
  /\ eventCh' = Tail(eventCh)
  /\ LET v == Head(eventCh).ts
         resolvedEvents == getSortedDDLEventBeforeTS(unsortedCache, v)
     IN IF resolvedEvents = <<>>
        THEN UNCHANGED <<unsortedCache, meta, batch, drainPc>>
        ELSE /\ unsortedCache' = unsortedCache \
                                   {resolvedEvents[i] : i \in 1..Len(resolvedEvents)}
             /\ meta' = updateStoreMeta(v, resolvedEvents)
             /\ batch' = resolvedEvents
             /\ drainPc' = "lock"
  /\ UNCHANGED <<mu, finishedDDLTS, schemaVersion, databaseMap, tableInfoStoreMap,
                 dispatchersMap, stores, ddlLog, gcTs, calls, fetched, applied,
                 storeFatal>>

\* s.mu.Lock(); the deferred Unlock runs only when the function returns
DrainLock ==
  /\ storeFatal = "no"
  /\ drainPc = "lock"
  /\ mu = Free
  /\ mu' = Drain
  /\ drainPc' = "apply"
  /\ UNCHANGED <<finishedDDLTS, schemaVersion, databaseMap, tableInfoStoreMap,
                 dispatchersMap, stores, eventCh, unsortedCache, ddlLog, meta, gcTs,
                 batch, calls, fetched, applied, storeFatal>>

\* one turn of the loop over resolvedEvents; after the last event the loop
\* goes back to the select with the mutex still locked
DrainApply ==
  /\ storeFatal = "no"
  /\ drainPc = "apply"
  /\ LET job == Head(batch)
         after == IF Len(batch) = 1 THEN "idle" ELSE "apply"
     IN IF alreadyApplied(job)
        THEN /\ batch' = Tail(batch)
             /\ drainPc' = after
             /\ UNCHANGED <<mu, finishedDDLTS, schemaVersion, databaseMap, stores,
                            applied, storeFatal>>
        ELSE IF handlePanics(job, databaseMap, tableInfoStoreMap)
        THEN /\ storeFatal' = "should not happened"
             /\ UNCHANGED <<mu, finishedDDLTS, schemaVersion, databaseMap, stores,
                            applied, batch, drainPc>>
        ELSE IF handleFails(job, databaseMap, tableInfoStoreMap)
        THEN /\ drainPc' = "exited"
             /\ mu' = Free
             /\ batch' = <<>>
             /\ UNCHANGED <<finishedDDLTS, schemaVersion, databaseMap, stores,
                            applied, storeFatal>>
        ELSE /\ databaseMap' = handledDatabaseMap(job, databaseMap)
             /\ stores' = handledStores(job, tableInfoStoreMap, stores)
             /\ schemaVersion' = job.version
             /\ finishedDDLTS' = job.finishedTs
             /\ applied' = Append(applied, job)
             /\ batch' = Tail(batch)
             /\ drainPc' = after
             /\ UNCHANGED <<mu, storeFatal>>
  /\ UNCHANGED <<tableInfoStoreMap, dispatchersMap, eventCh, unsortedCache, ddlLog,
                 meta, gcTs, calls, fetched>>

\* the API of the schema store, called from any number of goroutines
APINext ==
  \/ \E c \in Calls, d \in Dispatchers, t \in Tables, ts \in Ts :
       Call(c, "RegisterDispatcher", d, t, ts) /\ UNCHANGED <<routerVars, cacheVars>>
  \/ \E c \in Calls, d \in Dispatchers :
       Call(c, "UnregisterDispatcher", d, NoTable, 0) /\ UNCHANGED <<routerVars, cacheVars>>
  \/ \E c \in Calls : Call(c, "GetMaxFinishedDDLTS", 0, NoTable, 0) /\ UNCHANGED <<routerVars, cacheVars>>
  \/ \E c \in Calls, t \in Tables, ts \in Ts :
       Call(c, "GetTableInfo", 0, t, ts) /\ UNCHANGED <<routerVars, cacheVars>>
  \/ \E c \in Calls : Acquire(c) /\ UNCHANGED <<routerVars, cacheVars>>
  \/ \E c \in Calls : WaitInitialized(c) /\ UNCHANGED <<routerVars, cacheVars>>
  \/ \E c \in Calls : NewStore(c) /\ UNCHANGED <<routerVars, cacheVars>>
  \/ \E c \in Calls : Build(c) /\ UNCHANGED <<routerVars, cacheVars>>
  \/ \E c \in Calls : Relock(c) /\ UNCHANGED <<routerVars, cacheVars>>
  \/ \E c \in Calls : GetTableInfoInitialized(c) /\ UNCHANGED <<routerVars, cacheVars>>

\* the ddl job fetcher and the drain loop, the two goroutines of Run
RunNext ==
  \/ \E e \in DDLEventSet : writeDDLEvent(e) /\ UNCHANGED <<routerVars, cacheVars>>
  \/ \E ts \in 1..MaxTs : advanceResolvedTs(ts) /\ UNCHANGED <<routerVars, cacheVars>>
  \/ DrainDDLEvent /\ UNCHANGED <<routerVars, cacheVars>>
  \/ DrainResolvedTs /\ UNCHANGED <<routerVars, cacheVars>>
  \/ DrainLock /\ UNCHANGED <<routerVars, cacheVars>>
  \/ DrainApply /\ UNCHANGED <<routerVars, cacheVars>>

\* the goroutines that register dispatchers of table 1, each its own
Racers == 1..NumRacers

\* the ddl jobs of database 1 committed after the watermark of the former run
NewDDLEvents == {e \in DDLEventSet : e.schemaID = 1 /\ e.commitTs > MaxTs - 2}

\* registrations of one table against the two goroutines of Run
RaceNext ==
  \/ \E c \in Racers, ts \in Ts :
       Call(c, "RegisterDispatcher", c, 1, ts) /\ UNCHANGED <<routerVars, cacheVars>>
  \/ \E c \in Racers : Acquire(c) /\ UNCHANGED <<routerVars, cacheVars>>
  \/ \E c \in Racers : WaitInitialized(c) /\ UNCHANGED <<routerVars, cacheVars>>
  \/ \E c \in Racers : NewStore(c) /\ UNCHANGED <<routerVars, cacheVars>>
  \/ \E c \in Racers : Build(c) /\ UNCHANGED <<routerVars, cacheVars>>
  \/ \E c \in Racers : Relock(c) /\ UNCHANGED <<routerVars, cacheVars>>
  \/ \E e \in NewDDLEvents : writeDDLEvent(e) /\ UNCHANGED <<routerVars, cacheVars>>
  \/ \E e \in NewDDLEvents : advanceResolvedTs(e.commitTs) /\ UNCHANGED <<routerVars, cacheVars>>
  \/ DrainDDLEvent /\ UNCHANGED <<routerVars, cacheVars>>
  \/ DrainResolvedTs /\ UNCHANGED <<routerVars, cacheVars>>
  \/ DrainLock /\ UNCHANGED <<routerVars, cacheVars>>
  \/ DrainApply /\ UNCHANGED <<routerVars, cacheVars>>

(***************************************************************************)
(* The specifications: the parallel dynamic stream under every hasher,     *)
(* without and with memory control; the schema store opened on each        *)
(* storage image, under its API calls and under the goroutines of Run; the *)
(* registration race of one table; and the unsorted cache call by call.    *)
(***************************************************************************)
RouterInit ==
  /\ \E hasher \in [Paths -> HashRange] : newParallelDynamicStream(hasher)
  /\ enableMemoryControl = FALSE
  /\ pathArea = [p \in Paths |-> 1]
  /\ NewSchemaStore(CHOOSE img \in StorageImages : img.log = {})

StoreInit ==
  /\ newParallelDynamicStream([p \in Paths |-> 0])
  /\ enableMemoryControl = FALSE
  /\ pathArea = [p \in Paths |-> 1]
  /\ \E img \in StorageImages : NewSchemaStore(img)

RaceInit ==
  /\ newParallelDynamicStream([p \in Paths |-> 0])
  /\ enableMemoryControl = FALSE
  /\ pathArea = [p \in Paths |-> 1]
  /\ NewSchemaStore(CHOOSE img \in StorageImages : img.log # {})

\* memory control enabled, every hasher that returns valid indices, every
\* assignment of the paths to areas
FeedbackInit ==
  /\ \E hasher \in [Paths -> Streams] : newParallelDynamicStream(hasher)
  /\ enableMemoryControl = TRUE
  /\ pathArea \in [Paths -> Areas]
  /\ NewSchemaStore(CHOOSE img \in StorageImages : img.log = {})

\* a new schema store, of which only the unsorted cache is used
CacheInit ==
  /\ newParallelDynamicStream([p \in Paths |-> 0])
  /\ enableMemoryControl = FALSE
  /\ pathArea = [p \in Paths |-> 1]
  /\ NewSchemaStore(CHOOSE img \in StorageImages : img.log = {})

SpecRouter == RouterInit /\ [][RouterNext]_vars

SpecAPI == StoreInit /\ [][APINext]_vars

SpecRun == StoreInit /\ [][RunNext]_vars

SpecRace == RaceInit /\ [][RaceNext]_vars

SpecFeedback == FeedbackInit /\ [][FeedbackNext]_vars

SpecCache == CacheInit /\ [][CacheNext]_vars

(***************************************************************************)
(* Properties of the parallel dynamic stream.                              *)
(***************************************************************************)

strictlyIncreasing(q) == \A i \in 1..Len(q), j \in 1..Len(q) : i < j => q[i] < q[j]

\* C1: per-path order. For every path the events handed to Handle appear in
\* the order in which they were sent on In(path): sequence numbers are given in
\* send order, so the handled sequence is strictly increasing (nothing is
\* delivered twice, nothing overtakes), whatever the interleaving of the
\* producers and of the streams.
C1_PerPathOrder == \A p \in Paths : strictlyIncreasing(handled[p])

\* two paths owned by different streams, both with handled events, one of them
\* with all of its events handled in order
C1_Witness ==
  \E p \in Paths, q \in Paths :
    /\ ~hashPanics(p) /\ ~hashPanics(q) /\ hash(p) # hash(q)
    /\ Len(handled[p]) = MaxEvents
    /\ handled[q] # <<>>

\* C2: for every path at most one Handle invocation is in progress at any
\* moment, with several workers per stream and several streams.
C2_NoConcurrentHandle == \A p \in Paths : active[p] <= 1

\* a path is inside Handle with another event pending while its stream has a
\* free worker, and the other stream is inside Handle for another path
C2_Witness ==
  \E s \in Streams, p \in Paths :
    /\ dsBusy[s][p] /\ dsPending[s][p] # <<>>
    /\ busyWorkers(s) < WorkersPerStream
    /\ \E t \in Streams, q \in Paths : t # s /\ dsBusy[t][q]

\* C3: routing consistency. Every operation on a path is forwarded to the one
\* stream hash(path): a path is registered only there, its events wait only in
\* that stream's channel, a RemovePath answers PathMissing only when no stream
\* knows the path, and an AddPath succeeds only when no stream knows it yet.
C3_RoutingConsistency ==
  /\ \A p \in Paths : Cardinality(routed[p]) <= 1
  /\ \A p \in Paths, s \in Streams :
       (p \in dsPaths[s] \/ \E i \in 1..Len(dsIn[s]) : dsIn[s][i].path = p)
         => (~hashPanics(p) /\ s = hash(p))
  /\ (lastOp.op = "RemovePath" /\ lastOp.result = "PathMissing") => ~lastOp.known
  /\ (lastOp.op = "AddPath" /\ lastOp.result = "ok") => ~lastOp.known
  /\ lastOp.op # "none" => lastOp.stream = hash(lastOp.path)

\* a duplicate AddPath is refused by the owning stream after events of the path
\* were handled there, with the other stream in use for another path
C3_Witness ==
  /\ lastOp.op = "AddPath" /\ lastOp.result = "PathExists"
  /\ handled[lastOp.path] # <<>>
  /\ \E q \in Paths : q # lastOp.path /\ routed[q] # {} /\ routed[q] # routed[lastOp.path]

(***************************************************************************)
(* Properties of the schema store.                                         *)
(***************************************************************************)
Registrations == {c \in Calls : calls[c].op = "RegisterDispatcher"}

\* the finishedTs of the logged ddl jobs of table t
loggedVersions(t) == {e.finishedTs : e \in {x \in ddlLog : x.tableID = t /\ x.type \in TableJobs}}

\* C4: a registration below the gc floor returns TooOld, one at or above it
\* returns without error, and none at or above the floor is kept waiting for
\* a mutex whose holder has already returned.
C4_GCBoundary ==
  \A c \in Registrations :
    /\ calls[c].pc = "done" /\ calls[c].ts < gcTs => calls[c].result = "TooOld"
    /\ calls[c].pc = "done" /\ calls[c].ts >= gcTs => calls[c].result = "ok"
    /\ calls[c].pc = "lock" /\ calls[c].ts >= gcTs =>
         ~(mu \in Calls /\ calls[mu].pc = "done")

\* C5: once RegisterDispatcher(d, T, startTs) has returned without error and
\* while d stays registered, the store of T holds a version v <= startTs
\* whenever the log holds an applied ddl job of T that old.
C5_VersionAtStart ==
  \A c \in Registrations :
    LET rec == calls[c]
        sid == tableInfoStoreMap[rec.t]
    IN ( /\ rec.pc = "done" /\ rec.result = "ok"
         /\ sid # NoStore
         /\ stores[sid].dispatchers[rec.d] = rec.ts
         /\ \E v \in loggedVersions(rec.t) : gcTs <= v /\ v <= rec.ts /\ v <= finishedDDLTS )
       => \E v \in versionsOf(stores[sid]) : v <= rec.ts

\* the stores the registrations of table t built
builtStores(t) == {c \in Registrations : calls[c].t = t /\ stores[c].initialized}

\* a store that was in the slot of its table: dispatchers are registered only
\* on such a store
wasInSlot(st) == ~noDispatchers(st)

allReturned(t) ==
  /\ \A c \in Racers : calls[c].pc = "done" /\ calls[c].result = "ok" /\ calls[c].t = t
  /\ \A c \in Calls \ Racers : calls[c].pc = "idle"

C6_OneStore == allReturned(1) => tableInfoStoreMap[1] # NoStore

C6_MinFirstVersion ==
  allReturned(1) /\ tableInfoStoreMap[1] # NoStore =>
    \A c \in builtStores(1) :
      getFirstVersion(stores[tableInfoStoreMap[1]]) <= getFirstVersion(stores[c])

C6_Tail ==
  allReturned(1) /\ tableInfoStoreMap[1] # NoStore =>
    \A c \in builtStores(1) :
      wasInSlot(stores[c]) =>
        versionsOf(stores[c]) \subseteq versionsOf(stores[tableInfoStoreMap[1]])

C6_Dispatchers ==
  allReturned(1) /\ tableInfoStoreMap[1] # NoStore =>
    \A c \in Racers : stores[tableInfoStoreMap[1]].dispatchers[calls[c].d] # NoTs

C7_StoreLifecycle ==
  \A t \in Tables :
    tableInfoStoreMap[t] # NoStore <=> \E d \in Dispatchers : dispatchersMap[d] = t

\* the drain loop has finished a batch of resolved events
batchProcessed == drainPc = "apply" /\ drainPc' = "idle"

\* C8: finishedDDLTS never decreases, the resolvedTs of the meta record never
\* decreases, and after each processed batch resolvedTs >= finishedDDLTS.
C8_WatermarkMonotone ==
  [][ /\ finishedDDLTS' >= finishedDDLTS
      /\ meta'.resolvedTS >= meta.resolvedTS
      /\ batchProcessed => meta'.resolvedTS >= finishedDDLTS' ]_vars

\* C9: GetMaxFinishedDDLTS returns and leaves the mutex free: no call is ever
\* stuck in it holding the mutex.
C9_GetMaxReturns ==
  \A c \in Calls :
    calls[c].op = "GetMaxFinishedDDLTS" => ~(calls[c].pc = "deferredLock" /\ mu = c)

\* C10: GetTableInfo(T, ts) on a table with a store, for gcTs <= ts <=
\* finishedDDLTS, returns the version of the logged ddl job of T with the
\* largest finishedTs <= ts.
C10_PointInTime ==
  \A c \in Calls :
    LET rec == calls[c] IN
    ( /\ rec.op = "GetTableInfo" /\ rec.pc = "done" /\ rec.store # NoStore
      /\ gcTs <= rec.ts /\ rec.ts <= finishedDDLTS
      /\ \E v \in loggedVersions(rec.t) : v <= rec.ts )
    => /\ rec.result = "ok"
       /\ rec.value = Max({v \in loggedVersions(rec.t) : v <= rec.ts})


(***************************************************************************)
(* Feedback of the memory control.                                         *)
(***************************************************************************)

\* what the producer reads from Feedback() for the pair (a, p), in order
feedbackOf(a, p) == SelectSeq(feedbackChan, LAMBDA f : f.area = a /\ f.path = p)

alternates(q) == \A i \in 1..(Len(q) - 1) : q[i].pause # q[i + 1].pause

\* C11: for every (area, path) pair the pause values on the shared feedback
\* channel alternate, beginning with pause: true: never two consecutive
\* pause: true, never two consecutive pause: false, whichever streams the
\* feedback of the other pairs comes from.
C11_FeedbackAlternates ==
  \A a \in Areas, p \in Paths :
    /\ alternates(feedbackOf(a, p))
    /\ feedbackOf(a, p) # <<>> => feedbackOf(a, p)[1].pause

\* a pair was paused, resumed and paused again, with feedback of a path of
\* another stream in between on the same channel
C11_Witness ==
  \E a \in Areas, p \in Paths, q \in Paths :
    /\ hash(p) # hash(q)
    /\ Len(feedbackOf(a, p)) >= 3
    /\ \E i \in 1..Len(feedbackChan), j \in 1..Len(feedbackChan), k \in 1..Len(feedbackChan) :
         /\ i < j /\ j < k
         /\ feedbackChan[i].path = p /\ feedbackChan[j].path = q /\ feedbackChan[k].path = p

(***************************************************************************)
(* Removal of a path.                                                      *)
(***************************************************************************)

\* the sequence numbers waiting in the pending queues of the path
pendingSeqs(p) ==
  UNION {{dsPending[s][p][i].seq : i \in 1..Len(dsPending[s][p])} : s \in Streams}

\* C12: RemovePath(p) on an existing path drops every still-pending event of
\* p through OnDrop and then calls OnPathRemoved once, after which no stream
\* knows the path and nothing of it is pending; Handle is only entered for a
\* path that is registered, so never after OnPathRemoved; RemovePath on an
\* unknown path answers PathMissing and changes nothing of the streams.
C12_RemovePath ==
  [][\A p \in Paths :
       /\ (adminOps' # adminOps /\ lastOp'.op = "RemovePath" /\ lastOp'.path = p)
            => IF knownAnywhere(p)
               THEN /\ lastOp'.result = "ok"
                    /\ removedCnt'[p] = removedCnt[p] + 1
                    /\ dropped'[p] = dropped[p] \cup pendingSeqs(p)
                    /\ pendingSeqs(p)' = {}
                    /\ ~knownAnywhere(p)'
               ELSE /\ lastOp'.result = "PathMissing"
                    /\ UNCHANGED <<dsIn, dsPaths, dsPending, dsBusy, dsAwait, sent,
                                   handled, active, dropped, removedCnt>>
       /\ removedCnt'[p] # removedCnt[p]
            => (adminOps' # adminOps /\ lastOp'.op = "RemovePath" /\ lastOp'.path = p)
       /\ handled'[p] # handled[p] => (knownAnywhere(p) /\ knownAnywhere(p)')
  ]_vars

\* a path with a handled event is removed while another event of it is still
\* pending, which is dropped; a later RemovePath of it answered PathMissing
C12_Witness ==
  \E p \in Paths :
    /\ lastOp.op = "RemovePath" /\ lastOp.path = p /\ lastOp.result = "PathMissing"
    /\ removedCnt[p] = 1
    /\ handled[p] = <<1>> /\ dropped[p] = {2}
    /\ adminOps = 3

(***************************************************************************)
(* The input channel of the schema store.                                  *)
(***************************************************************************)

\* the ddl job fetcher has another writeDDLEvent or advanceResolvedTs to make
fetcherHasMore ==
  /\ storeFatal = "no"
  /\ drainPc # "exited"
  /\ (fetched.ddl < MaxDDLEvents \/ fetched.ts < MaxAdvances)

\* C13: writeDDLEvent and advanceResolvedTs are non-blocking enqueues:
\* whenever the fetcher makes one of the two calls, the channel send of the
\* call can complete at once, whatever is already queued in eventCh and
\* wherever the drain loop stands.
C13_NonBlockingEnqueue == fetcherHasMore => Len(eventCh) < MaxQueued

(***************************************************************************)
(* The drain loop: order and progress.                                     *)
(***************************************************************************)

\* ascending (finishedTs, schemaVersion)
jobBefore(a, b) ==
  \/ a.finishedTs < b.finishedTs
  \/ (a.finishedTs = b.finishedTs /\ a.version < b.version)

inApplicationOrder(q) == \A i \in 1..Len(q), j \in 1..Len(q) : i < j => jobBefore(q[i], q[j])

\* the drain loop waits in s.mu.Lock() for the mutex it locked itself in an
\* earlier turn of its loop
drainWaitsForItself == drainPc = "lock" /\ mu = Drain

\* C16: the jobs are applied in ascending (finishedTs, schemaVersion) order,
\* and when the drain loop processes a resolved timestamp every event of the
\* fetched prefix is applied unless it was applied before: each turn over the
\* prefix applies the job or skips it as already applied (or ends the loop
\* with the job's error), and the loop is never left with a fetched prefix
\* that it cannot go on to apply.
C16_ApplicationOrder ==
  [][ /\ inApplicationOrder(applied')
      /\ (drainPc = "apply" /\ batch' # batch /\ drainPc' # "exited")
           => \/ alreadyApplied(Head(batch))
              \/ applied' = Append(applied, Head(batch))
      /\ ~drainWaitsForItself' ]_vars

\* the goroutine of the drain loop keeps running: whatever step it can take
\* it takes in the end
DrainFairness ==
  /\ WF_vars(DrainDDLEvent /\ UNCHANGED <<routerVars, cacheVars>>)
  /\ WF_vars(DrainResolvedTs /\ UNCHANGED <<routerVars, cacheVars>>)
  /\ WF_vars(DrainLock /\ UNCHANGED <<routerVars, cacheVars>>)
  /\ WF_vars(DrainApply /\ UNCHANGED <<routerVars, cacheVars>>)

SpecRunFair == StoreInit /\ [][RunNext]_vars /\ DrainFairness

\* something is queued for the drain loop, or fetched and not yet applied
drainHasWork == eventCh # <<>> \/ batch # <<>>

\* the drain loop returned an error or the process died
drainStopped == drainPc = "exited" \/ storeFatal # "no"

\* C17: unless a job application fails, everything placed on the input
\* channel is eventually processed: the channel is emptied and every fetched
\* prefix is applied, also after an earlier non-empty batch.
C17_EventuallyProcessed == drainHasWork ~> (~drainHasWork \/ drainStopped)

(***************************************************************************)
(* The unsorted cache.                                                     *)
(***************************************************************************)

eventsOf(q) == {q[i] : i \in 1..Len(q)}

\* C18: a fetch up to ts returns exactly the events that were cached with
\* commitTs <= ts, in strictly ascending commitTs order, and leaves exactly
\* those with commitTs > ts, as one atomic step among the concurrent adds;
\* every event added is in the cache, or held by the running fetch, or was
\* returned, and none is returned twice.
C18_FetchBefore ==
  storeFatal = "no" =>
    /\ fetchCall.pc = "done" =>
         /\ eventsOf(fetchCall.events) = {e \in fetchCall.before : e.commitTs <= fetchCall.ts}
         /\ \A i \in 1..Len(fetchCall.events), j \in 1..Len(fetchCall.events) :
              i < j => fetchCall.events[i].commitTs < fetchCall.events[j].commitTs
         /\ fetchCall.after = {e \in fetchCall.before : e.commitTs > fetchCall.ts}
    /\ \A i \in 1..Len(cacheHist.returned), j \in 1..Len(cacheHist.returned) :
         i < j => cacheHist.returned[i] # cacheHist.returned[j]
    /\ unsortedCache \cap eventsOf(cacheHist.returned) = {}
    /\ cacheHist.added =
         unsortedCache \cup eventsOf(cacheHist.returned)
           \cup (IF fetchCall.pc \in {"delete", "return"}
                 THEN eventsOf(fetchCall.events) ELSE {})

\* after a fetch that found nothing, a second fetch returned two events and
\* left a third, later one in the cache
C18_Witness ==
  /\ fetchCall.pc = "done"
  /\ cacheHist.fetches = 2
  /\ Len(fetchCall.events) = 2
  /\ fetchCall.after # {}
  /\ eventsOf(cacheHist.returned) = eventsOf(fetchCall.events)

(***************************************************************************)
(* Schema jobs.                                                            *)
(***************************************************************************)

\* the drain loop hands the first job of the batch to handleResolvedDDLJob
appliesJobOfType(ty) ==
  /\ drainPc = "apply"
  /\ batch' # batch
  /\ Head(batch).type = ty
  /\ ~alreadyApplied(Head(batch))

\* C19: a resolved CreateSchema job of a schema that is not in databaseMap
\* inserts a live DatabaseInfo (createVersion = the job's finishedTs,
\* deleteVersion = +infinity) and advances the watermarks; one of a schema
\* that is in databaseMap fails and leaves databaseMap unchanged.
C19_CreateSchema ==
  [][ appliesJobOfType("CreateSchema") =>
        LET job == Head(batch) IN
        IF ~databaseMap[job.schemaID].present
        THEN /\ databaseMap' = [databaseMap EXCEPT ![job.schemaID] = LiveDatabase(job.finishedTs)]
             /\ finishedDDLTS' = job.finishedTs
             /\ schemaVersion' = job.version
        ELSE /\ drainPc' = "exited"
             /\ databaseMap' = databaseMap ]_vars

(***************************************************************************)
(* The meta record.                                                        *)
(***************************************************************************)

\* the drain loop takes a resolved timestamp from the input channel
takesResolvedTs ==
  /\ drainPc = "idle"
  /\ eventCh # <<>>
  /\ Head(eventCh).kind = "ts"
  /\ eventCh' = Tail(eventCh)

\* C20: for every resolved timestamp v taken from the input channel, with an
\* empty fetched prefix or not, the meta record becomes (v, finishedTs and
\* schemaVersion of the last fetched event, or the former ones when nothing
\* was fetched), and at that write every fetched event is in the ddl log.
C20_MetaPerResolvedTs ==
  [][ takesResolvedTs =>
        LET v == Head(eventCh).ts
            prefix == getSortedDDLEventBeforeTS(unsortedCache, v)
        IN /\ meta'.resolvedTS = v
           /\ IF prefix = <<>>
              THEN /\ meta'.finishedDDLTS = meta.finishedDDLTS
                   /\ meta'.schemaVersion = meta.schemaVersion
              ELSE /\ meta'.finishedDDLTS = prefix[Len(prefix)].finishedTs
                   /\ meta'.schemaVersion = prefix[Len(prefix)].version
           /\ \A i \in 1..Len(prefix) : prefix[i] \in ddlLog' ]_vars

(***************************************************************************)
(* Jobs that create a table.                                               *)
(***************************************************************************)

\* the drain loop hands the first job of the batch, one that creates a table,
\* to its arm of handleResolvedDDLJob
reachesCreateArm ==
  /\ storeFatal = "no"
  /\ drainPc = "apply"
  /\ Head(batch).type \in CreateTableJobs
  /\ ~alreadyApplied(Head(batch))
  /\ ~fillSchemaNameFails(Head(batch), databaseMap)
  /\ (batch' # batch \/ storeFatal' # storeFatal)

\* C21: whenever the drain loop applies a CreateTable, CreateTables,
\* CreateView or RecoverTable job, the table of the job has no entry in
\* tableInfoStoreMap, so the "should not happened" panic of that arm is never
\* reached, whatever RegisterDispatcher calls were made before.
C21_NoStoreAtCreate ==
  [][ reachesCreateArm =>
        /\ tableInfoStoreMap[Head(batch).tableID] = NoStore
        /\ storeFatal' = "no" ]_vars

(***************************************************************************)
(* The check of the hasher's result.                                       *)
(***************************************************************************)

\* a sub-stream was selected for the path: an operation was forwarded, the
\* path is registered or one of its events waits in a channel
touched(p) ==
  \/ routed[p] # {}
  \/ sent[p] # 0
  \/ \E s \in Streams :
       \/ p \in dsPaths[s]
       \/ \E i \in 1..Len(dsIn[s]) : dsIn[s][i].path = p

\* an operation on a path whose hasher result is inside [0, N) went to the
\* stream of that index and to no other, and one on a path whose result is
\* outside ended the process without selecting a stream
selectsByHash ==
  /\ \A p \in Paths :
       /\ hashPanics(p) => ~touched(p)
       /\ ~hashPanics(p) => routed[p] \subseteq {hash(p)}
  /\ lastOp.op # "none" => (~hashPanics(lastOp.path) /\ lastOp.stream = hash(lastOp.path))
  /\ dsFatal <=> dsPanic # NoPanic
  /\ dsFatal => hashPanics(dsPanic.path)

\* C22 as stated: the result of the hasher is validated before a stream is
\* selected, so that every result outside [0, N) ends in the fatal "invalid
\* hash result" error with no stream touched, and every result inside [0, N)
\* lets the operation proceed on streams[hash(p)].
C22_HashValidated ==
  /\ selectsByHash
  /\ dsFatal => dsPanic.msg = "invalid hash result"

\* C22, amended: a result >= N ends in the fatal "invalid hash result" error
\* of hash(); a negative result passes the check of hash() and ends the
\* process in the index expression of the caller (index out of range); in
\* both cases no stream is touched, and every result inside [0, N) lets the
\* operation proceed on streams[hash(p)].
C22_HashChecked ==
  /\ selectsByHash
  /\ dsFatal =>
       dsPanic.msg = IF hash(dsPanic.path) >= StreamCount THEN "invalid hash result"
                     ELSE "index out of range"

\* an operation on a path with a negative hasher result ended the process
\* after events of a path with a valid one were handled
C22_Witness ==
  /\ dsFatal
  /\ hash(dsPanic.path) < 0
  /\ dsPanic.msg = "index out of range"
  /\ \E q \in Paths : ~hashPanics(q) /\ handled[q] # <<>> /\ routed[q] = {hash(q)}

(***************************************************************************)
(* The mutex of the schema store on the error returns of a registration.   *)
(***************************************************************************)

\* RegisterDispatcher returned an error
returnedError(c) ==
  /\ calls[c].op = "RegisterDispatcher"
  /\ calls[c].pc = "done"
  /\ calls[c].result # "ok"

\* C23: a RegisterDispatcher call that returned an error (TooOld at the first
\* check or at the re-check, or a failed replay) does not hold the mutex of
\* the store any more, so that no later call and not the drain loop waits
\* for a mutex whose holder has gone.
C23_MutexReleasedOnError == \A c \in Calls : returnedError(c) => mu # c

(***************************************************************************)
(* GetTableInfo against a registration that is rebuilding the store.       *)
(***************************************************************************)

\* every goroutine inside an API call keeps running: a step it can take it
\* takes in the end
CallFairness ==
  \A c \in Calls :
    /\ WF_vars(Acquire(c) /\ UNCHANGED <<routerVars, cacheVars>>)
    /\ WF_vars(WaitInitialized(c) /\ UNCHANGED <<routerVars, cacheVars>>)
    /\ WF_vars(NewStore(c) /\ UNCHANGED <<routerVars, cacheVars>>)
    /\ WF_vars(Build(c) /\ UNCHANGED <<routerVars, cacheVars>>)
    /\ WF_vars(Relock(c) /\ UNCHANGED <<routerVars, cacheVars>>)
    /\ WF_vars(GetTableInfoInitialized(c) /\ UNCHANGED <<routerVars, cacheVars>>)

SpecAPIFair == StoreInit /\ [][APINext]_vars /\ CallFairness

\* GetTableInfo found a store whose latch is not set and waits for it
waitsForLatch(c) == calls[c].op = "GetTableInfo" /\ calls[c].pc = "waitInitLocked"

\* C24: a GetTableInfo that waits for the initialized latch of a store that a
\* RegisterDispatcher is still rebuilding returns in the end: the
\* registration, with the store mutex its schema-name lookup takes, finishes
\* and sets the latch.
C24_GetTableInfoReturns ==
  \A c \in Calls : waitsForLatch(c) ~> (calls[c].pc = "done" \/ storeFatal # "no")

(***************************************************************************)
(* The order of the versions of a store.                                   *)
(***************************************************************************)

\* C25: in every versioned store the versions stand in strictly ascending
\* finishedTs order, whatever the interleaving of the drain loop and the
\* registrations: a job the drain loop applies to a store that is in
\* tableInfoStoreMap while its history is still being replayed is placed
\* neither before nor twice with the replayed versions.
C25_VersionsAscending == \A c \in Calls : strictlyIncreasing(stores[c].infos)

(***************************************************************************)
(* The final re-check of a registration.                                   *)
(***************************************************************************)

\* the registration c leaves its final critical section without error
recheckReturns(c) ==
  /\ calls[c].pc = "relock"
  /\ calls'[c].pc = "done"
  /\ calls'[c].result = "ok"

\* C26: the final re-check of RegisterDispatcher never finds the slot of its
\* table empty (the "should not happened" panic of the registration is not
\* reached), and the store it finds there has its initialized latch set,
\* under every interleaving with other registrations and with
\* UnregisterDispatcher, also of the dispatcher that is being registered.
C26_RecheckFindsStore ==
  [][ /\ storeFatal' # "should not happened"
      /\ \A c \in Calls :
           recheckReturns(c) =>
             /\ tableInfoStoreMap[calls[c].t] # NoStore
             /\ stores[tableInfoStoreMap[calls[c].t]].initialized ]_vars

(***************************************************************************)
(* A registration that fails.                                              *)
(***************************************************************************)

\* what a run leaves on disk that ended when its first job, a job of table 2
\* whose database is not in databaseMap, failed in handleResolvedDDLJob: the
\* job is in the log and the meta record, written before the jobs are
\* applied, carries its finishedTs and version
FailedRunImage ==
  [log |-> {DDLEvent(1, "AlterTable", 2, SchemaOf(2))},
   resolvedTS |-> 1, finishedDDLTS |-> 1, schemaVersion |-> 1, gcTs |-> 0]

\* the schema store opened on the storage of the run that failed
RestartInit ==
  /\ newParallelDynamicStream([p \in Paths |-> 0])
  /\ enableMemoryControl = FALSE
  /\ pathArea = [p \in Paths |-> 1]
  /\ NewSchemaStore(FailedRunImage)

SpecRestart == RestartInit /\ [][APINext]_vars

\* the registration c returns an error in this step
failsNow(c) ==
  /\ calls[c].pc # "done"
  /\ calls'[c].op = "RegisterDispatcher"
  /\ calls'[c].pc = "done"
  /\ calls'[c].result # "ok"

\* no other call registers the dispatcher of c
onlyRegistration(c) ==
  \A b \in Calls \ {c} :
    ~(calls[b].op = "RegisterDispatcher" /\ calls[b].d = calls[c].d)

\* nothing is left of the registration c: its dispatcher is in neither map,
\* and a store in tableInfoStoreMap whose latch is not set still has the call
\* running that is to set it
noTrace(c) ==
  /\ onlyRegistration(c) =>
       /\ dispatchersMap[calls[c].d] = NoTable
       /\ \A b \in Calls : stores[b].dispatchers[calls[c].d] = NoTs
  /\ \A t \in Tables :
       (tableInfoStoreMap[t] # NoStore /\ ~stores[tableInfoStoreMap[t]].initialized)
         => calls[tableInfoStoreMap[t]].pc # "done"

\* C27: a RegisterDispatcher call that returns an error leaves no trace: its
\* dispatcher is in neither dispatchersMap nor the registered set of a
\* versioned store, and no store stays in tableInfoStoreMap that nobody will
\* initialize any more.
C27_FailureLeavesNoTrace == [][\A c \in Calls : failsNow(c) => noTrace(c)']_vars

(***************************************************************************)
(* The meta record against the watermarks in memory.                       *)
(***************************************************************************)

\* the drain loop ends its turn over the events of a resolved timestamp: the
\* last one was applied or skipped, or a job failed
batchEnded == drainPc = "apply" /\ drainPc' \in {"idle", "exited"}

\* C28: when the drain loop has finished processing a resolved timestamp,
\* finishedDDLTS and schemaVersion of the meta record equal finishedDDLTS and
\* schemaVersion in memory, the values of the last job that was applied, also
\* when jobs of the batch were skipped as replays or a job failed.
C28_MetaMatchesMemory ==
  [][ batchEnded =>
        /\ meta'.finishedDDLTS = finishedDDLTS'
        /\ meta'.schemaVersion = schemaVersion' ]_vars

====
